---- MODULE Spec2Model ----
(***************************************************************************)
(* Model of scripts/determine_build_matrix.py: the board catalog reader    *)
(* (read_board_spec, find_all_boards), the change classifier               *)
(* (version_changed, extract_affected_boards), the matrix builder          *)
(* (determine_build_matrix) and the command line driver (main).            *)
(*                                                                         *)
(* Strings are sequences of tokens: a token is a path separator "/", a     *)
(* white-space token, or a whole path-segment name.  Path(f).parts,        *)
(* str.endswith, str.strip, str(relative) and the f-string join are        *)
(* computed on these sequences.  Python values that the code inspects      *)
(* dynamically (the parsed YAML document) are tagged records, and an       *)
(* operation that raises yields an exception record that propagates as     *)
(* in Python.                                                              *)
(***************************************************************************)
EXTENDS Integers, Sequences, FiniteSets, TLC

VARIABLES
    argv,            \* positional arguments args.changed_files
    github_output,   \* args.github_output
    stdin,           \* the lines waiting on standard input
    fs,              \* the repository tree under args.base_path
    pc,              \* position of the run
    changed_files,   \* main's local changed_files
    stdin_read,      \* whether sys.stdin was iterated
    result,          \* what determine_build_matrix returned or raised
    stdout,          \* what was printed to standard output, in order
    stderr,          \* what was printed to the error stream, in order
    exit_code,       \* -1 while running, then the process exit status
    version_out,     \* classifier run: value of version_changed
    affected_out,    \* classifier run: value of extract_affected_boards
    affected_prev,   \* classifier run: the affected set before a reordering
    catalog_out      \* catalog run: what find_all_boards returned or raised

vars == <<argv, github_output, stdin, fs, pc, changed_files, stdin_read, result,
          stdout, stderr, exit_code, version_out, affected_out, affected_prev,
          catalog_out>>

----------------------------------------------------------------------------
(* Bounds                                                                  *)

MaxArgs == 2
MaxLines == 2
MaxFiles == 3
MaxBoards == 2

----------------------------------------------------------------------------
(* Strings as token sequences                                              *)

SEP == "/"
SP == " "
NL == "\n"
Whitespace == {SP, NL}

\* s.endswith(".version") on segment names: the names of the model that carry
\* the suffix.
VersionNames == {"core.version", "foo.version"}

\* Sequences over S of length at most n.
SeqsUpTo(S, n) == UNION {[1..k -> S] : k \in 0..n}

Last(s) == s[Len(s)]

Front(s) == SubSeq(s, 1, Len(s) - 1)

\* f.endswith(".version"): the raw string ends with the suffix, so its last
\* token is a name carrying it (a trailing separator defeats the test).
endswith_version(f) == Len(f) > 0 /\ Last(f) \in VersionNames

\* Split a raw string at separators: the sequence of (possibly empty) runs
\* between them; an empty run is <<>> and a name n is <<n>>.
RECURSIVE split_sep(_)
split_sep(f) ==
    IF f = <<>> THEN << <<>> >>
    ELSE LET rest == split_sep(Tail(f))
         IN IF Head(f) = SEP THEN << <<>> >> \o rest
            ELSE << <<Head(f)>> \o Head(rest) >> \o Tail(rest)

\* Path(f).parts: a leading separator gives the root part "/", empty runs
\* (doubled or trailing separators) and "." segments are dropped.
RECURSIVE keep_segments(_)
keep_segments(runs) ==
    IF runs = <<>> THEN <<>>
    ELSE IF Head(runs) = <<>> \/ Head(runs) = <<".">>
         THEN keep_segments(Tail(runs))
         ELSE <<Head(runs)[1]>> \o keep_segments(Tail(runs))

parts(f) ==
    IF f # <<>> /\ Head(f) = SEP
    THEN <<SEP>> \o keep_segments(split_sep(f))
    ELSE keep_segments(split_sep(f))

\* "/".join(segments): str(relative) of a relative path and
\* f"{parts[1]}/{parts[2]}".
RECURSIVE join(_)
join(segs) ==
    IF segs = <<>> THEN <<".">>
    ELSE IF Len(segs) = 1 THEN segs
    ELSE <<Head(segs), SEP>> \o join(Tail(segs))

\* line.strip(): leading and trailing white space removed.
RECURSIVE lstrip(_)
lstrip(s) == IF s # <<>> /\ Head(s) \in Whitespace THEN lstrip(Tail(s)) ELSE s

RECURSIVE rstrip(_)
rstrip(s) == IF s # <<>> /\ Last(s) \in Whitespace THEN rstrip(Front(s)) ELSE s

strip(s) == lstrip(rstrip(s))

\* Python's ordering of str on the names of the model (code point order of
\* the first differing character; SEP sorts before letters).
Rank(tok) ==
    CASE tok = SEP -> 0
      [] tok = "a" -> 1
      [] tok = "b" -> 2
      [] tok = "x" -> 3
      [] tok = "y" -> 4
      [] OTHER -> 5

RECURSIVE str_less(_, _)
str_less(s, t) ==
    IF t = <<>> THEN FALSE
    ELSE IF s = <<>> THEN TRUE
    ELSE IF Head(s) = Head(t) THEN str_less(Tail(s), Tail(t))
    ELSE Rank(Head(s)) < Rank(Head(t))

----------------------------------------------------------------------------
(* Python values of a parsed document, and exceptions                      *)

PyNone == [t |-> "none"]
PyStr(s) == [t |-> "str", s |-> s]
PyMap(m) == [t |-> "map", m |-> m]
PyBool(b) == [t |-> "bool", b |-> b]
PyList(items) == [t |-> "list", items |-> items]

Raised(name) == [t |-> "raise", exc |-> name]
IsRaise(v) == v.t = "raise"

\* bool(v): None, "" and {} are falsy.
truthy(v) ==
    CASE v.t = "none" -> FALSE
      [] v.t = "str" -> v.s # ""
      [] v.t = "map" -> DOMAIN v.m # {}
      [] OTHER -> TRUE

\* key in v: key membership for a mapping, substring test for a str (the
\* model's scalar strings contain a key only when they equal it), TypeError
\* for None.
py_in(key, v) ==
    CASE v.t = "map" -> PyBool(key \in DOMAIN v.m)
      [] v.t = "str" -> PyBool(v.s = key)
      [] OTHER -> Raised("TypeError")

\* v[key]: the mapped value, TypeError for a str or None index by str.
py_getitem(v, key) ==
    CASE v.t = "map" -> IF key \in DOMAIN v.m THEN v.m[key] ELSE Raised("KeyError")
      [] OTHER -> Raised("TypeError")

\* v.get(key, default): only a mapping has the method.
py_get(v, key, default) ==
    CASE v.t = "map" -> IF key \in DOMAIN v.m THEN v.m[key] ELSE default
      [] OTHER -> Raised("AttributeError")

----------------------------------------------------------------------------
(* Board Catalog Reader                                                    *)

\* A spec.yaml on disk: whether open() succeeds, whether yaml.safe_load
\* accepts the text, and the document it parses to.
SpecFile(readable, valid, doc) == [readable |-> readable, valid |-> valid, doc |-> doc]

ArchDoc(a) == PyMap("board" :> PyMap("cpu" :> PyMap("arch" :> PyStr(a))))

F_arm == SpecFile(TRUE, TRUE, ArchDoc("arm"))
F_x86 == SpecFile(TRUE, TRUE, ArchDoc("x86"))
F_unreadable == SpecFile(FALSE, TRUE, PyNone)
F_badyaml == SpecFile(TRUE, FALSE, PyNone)
F_empty == SpecFile(TRUE, TRUE, PyNone)
F_emptymap == SpecFile(TRUE, TRUE, PyMap(<<>>))
F_noboard == SpecFile(TRUE, TRUE, PyMap("name" :> PyStr("x")))
F_nocpu == SpecFile(TRUE, TRUE, PyMap("board" :> PyMap("name" :> PyStr("x"))))
F_noarch == SpecFile(TRUE, TRUE, PyMap("board" :> PyMap("cpu" :> PyMap("cores" :> PyStr("4")))))
F_scalar == SpecFile(TRUE, TRUE, PyStr("hello"))
F_scalarboard == SpecFile(TRUE, TRUE, PyStr("board"))
F_boardnull == SpecFile(TRUE, TRUE, PyMap("board" :> PyNone))
F_boardstr == SpecFile(TRUE, TRUE, PyMap("board" :> PyStr("cpu")))
F_cpunull == SpecFile(TRUE, TRUE, PyMap("board" :> PyMap("cpu" :> PyNone)))

\* try: open + yaml.safe_load; except Exception: warn and return None.
read_board_spec(file) ==
    IF file.readable /\ file.valid THEN file.doc ELSE PyNone

\* Lines 47-50: arch = "unknown", replaced by spec["board"]["cpu"].get("arch",
\* "unknown") when spec is truthy and holds "board" and spec["board"] holds "cpu".
\* `and` short-circuits left to right; a raising operand raises.
ArchGet(board) ==
    LET cpu == py_getitem(board, "cpu")
    IN IF IsRaise(cpu) THEN cpu ELSE py_get(cpu, "arch", PyStr("unknown"))

ArchBoard(spec) ==
    LET board == py_getitem(spec, "board")
        hasCpu == py_in("cpu", board)
    IN IF IsRaise(board) THEN board
       ELSE IF IsRaise(hasCpu) THEN hasCpu
       ELSE IF hasCpu.b THEN ArchGet(board)
       ELSE PyStr("unknown")

spec_arch(spec) ==
    IF ~truthy(spec) THEN PyStr("unknown")
    ELSE LET hasBoard == py_in("board", spec)
         IN IF IsRaise(hasBoard) THEN hasBoard
            ELSE IF hasBoard.b THEN ArchBoard(spec)
            ELSE PyStr("unknown")

BoardEntry(board, arch) == [board |-> board, arch |-> arch]

\* The repository tree: whether base_path/boards exists, and the spec.yaml
\* files below it in the order rglob yields them (directory order, not
\* sorted); dir is the file's parent relative to boards/, as segments.
Tree(exists, specs) == [exists |-> exists, specs |-> specs]

\* The loop of lines 40-55 over the remaining files; an exception leaves
\* the function at once.
RECURSIVE scan_specs(_, _)
scan_specs(specs, boards) ==
    IF specs = <<>> THEN PyList(boards)
    ELSE LET board_path == join(Head(specs).dir)
             arch == spec_arch(read_board_spec(Head(specs).file))
         IN IF IsRaise(arch) THEN arch
            ELSE scan_specs(Tail(specs), Append(boards, BoardEntry(board_path, arch)))

find_all_boards(tree) ==
    IF ~tree.exists THEN PyList(<<>>) ELSE scan_specs(tree.specs, <<>>)

----------------------------------------------------------------------------
(* Change Classifier                                                       *)

\* any(Path(f).parts[0] == "versions" and f.endswith(".version") for f in
\* changed_files): evaluated left to right, stopping at the first true
\* element; parts[0] of an empty tuple raises IndexError.
RECURSIVE version_changed(_)
version_changed(files) ==
    IF files = <<>> THEN PyBool(FALSE)
    ELSE LET p == parts(Head(files))
         IN IF p = <<>> THEN Raised("IndexError")
            ELSE IF p[1] = "versions" /\ endswith_version(Head(files)) THEN PyBool(TRUE)
            ELSE version_changed(Tail(files))

\* The test without the look at the first part.
names_board_any_root(p) == Len(p) >= 3

\* A changed path names a board when its first part is "boards" and it has
\* at least three parts.
names_board(p) == Len(p) >= 3 /\ p[1] = "boards"

\* The identifier "<vendor>/<model>" of the second and third parts.
board_of(p) == join(<<p[2], p[3]>>)

\* extract_affected_boards: a set filled by one pass over the changed files.
RECURSIVE extract_affected_boards(_)
extract_affected_boards(files) ==
    IF files = <<>> THEN {}
    ELSE LET p == parts(Head(files))
             rest == extract_affected_boards(Tail(files))
         IN IF names_board(p) THEN {board_of(p)} \cup rest ELSE rest

----------------------------------------------------------------------------
(* Matrix Builder                                                          *)

REASON_ALL == "version update (testing all boards)"
REASON_SOME == "board-specific changes"
REASON_NONE == "no boards affected"

\* [b for b in all_boards if b["board"] in affected]
RECURSIVE filter_boards(_, _)
filter_boards(all_boards, affected) ==
    IF all_boards = <<>> THEN <<>>
    ELSE IF Head(all_boards).board \in affected
         THEN <<Head(all_boards)>> \o filter_boards(Tail(all_boards), affected)
         ELSE filter_boards(Tail(all_boards), affected)

\* "board-specific changes" if boards else "no boards affected"
reason_for(boards) == IF boards # <<>> THEN REASON_SOME ELSE REASON_NONE

\* sorted(affected): the ascending list of a set of strings.
sorted_strs(S) ==
    CHOOSE q \in [1..Cardinality(S) -> S] :
        \A i, j \in 1..Cardinality(S) : i < j => str_less(q[i], q[j])

\* A decision whose boards are sorted on their own, apart from include.
BuildDecision_sorted(boards, reason) ==
    [t |-> "dict",
     include |-> boards,
     boards |-> sorted_strs({boards[i].board : i \in 1..Len(boards)}),
     total |-> Len(boards),
     reason |-> reason]

\* The returned dict: include, the board identifiers projected from it in
\* order, its length, and the reason.
BuildDecision(boards, reason) ==
    [t |-> "dict",
     include |-> boards,
     boards |-> [i \in 1..Len(boards) |-> boards[i].board],
     total |-> Len(boards),
     reason |-> reason]

\* The branch with the reason taken from the affected set instead of the
\* boards found in the catalog.
select_boards_by_affected(vc, changed, tree) ==
    LET all_boards == find_all_boards(tree)
    IN IF IsRaise(all_boards) THEN all_boards
       ELSE IF vc
       THEN BuildDecision(all_boards.items, REASON_ALL)
       ELSE LET affected == extract_affected_boards(changed)
                boards == filter_boards(all_boards.items, affected)
            IN BuildDecision(boards, IF affected # {} THEN REASON_SOME ELSE REASON_NONE)

\* The branch on version_changed; find_all_boards is called in both
\* branches and an exception of it leaves the function.
select_boards(vc, changed, tree) ==
    LET all_boards == find_all_boards(tree)
    IN IF IsRaise(all_boards) THEN all_boards
       ELSE IF vc
       THEN BuildDecision(all_boards.items, REASON_ALL)
       ELSE LET boards == filter_boards(all_boards.items, extract_affected_boards(changed))
            IN BuildDecision(boards, reason_for(boards))

determine_build_matrix(changed, tree) ==
    LET vc == version_changed(changed)
    IN IF IsRaise(vc) THEN vc ELSE select_boards(vc.b, changed, tree)

\* The definition of determine_build_matrix that returns only boards,
\* reason and total: the catalog entries on a version change, otherwise the
\* sorted affected identifiers without a catalog lookup.
select_boards_only(vc, changed, tree) ==
    IF vc
    THEN LET all_boards == find_all_boards(tree)
         IN IF IsRaise(all_boards) THEN all_boards
            ELSE [t |-> "dict", boards |-> all_boards.items, reason |-> REASON_ALL,
                  total |-> Len(all_boards.items)]
    ELSE LET boards == sorted_strs(extract_affected_boards(changed))
         IN [t |-> "dict", boards |-> boards, reason |-> reason_for(boards),
             total |-> Len(boards)]

determine_build_matrix_boards_only(changed, tree) ==
    LET vc == version_changed(changed)
    IN IF IsRaise(vc) THEN vc ELSE select_boards_only(vc.b, changed, tree)

----------------------------------------------------------------------------
(* Inputs                                                                  *)

P_empty == <<>>
P_dot == <<".">>
P_readme == <<"README.md">>
P_ver == <<"versions", SEP, "core.version">>
P_vernote == <<"versions", SEP, "notes.txt">>
P_vertrail == <<"versions", SEP, "core.version", SEP>>
P_absver == <<SEP, "versions", SEP, "core.version">>
P_boardver == <<"boards", SEP, "a", SEP, "x", SEP, "foo.version">>
P_ax == <<"boards", SEP, "a", SEP, "x", SEP, "main.c">>
P_ax2 == <<"boards", SEP, "a", SEP, "x", SEP, "other.c">>
P_ay == <<"boards", SEP, "a", SEP, "y", SEP, "main.c">>
P_aydir == <<"boards", SEP, "a", SEP, "y">>
P_short == <<"boards", SEP, "a">>
P_other == <<"docs", SEP, "a", SEP, "x", SEP, "main.c">>

\* Positional arguments of a run of main.
ArgPaths == {P_empty, P_readme, P_ver, P_vertrail, P_ax, P_ax2, P_ay, P_short}

\* Changed paths of a classifier run.
AllPaths == {P_empty, P_dot, P_readme, P_ver, P_vernote, P_vertrail, P_absver,
             P_boardver, P_ax, P_ax2, P_ay, P_aydir, P_short, P_other}

L_blank == <<NL>>
L_spaces == <<SP, SP, NL>>
L_readme == <<"README.md", NL>>
L_ver == <<SP, "versions", SEP, "core.version", NL>>

StdinLines == {L_blank, L_spaces, L_readme, L_ver}

\* Board directories below boards/, as segments relative to it.
Dirs == {<<"a", "x">>, <<"a", "y">>, <<"b", "x">>}

RunFiles == {F_arm, F_boardnull}

ScanFiles == {F_arm, F_x86, F_unreadable, F_badyaml, F_empty, F_emptymap, F_noboard,
              F_nocpu, F_noarch, F_scalar, F_scalarboard, F_boardnull, F_boardstr,
              F_cpunull}

\* Trees with at most MaxBoards spec.yaml files from Files, in any rglob
\* order, each in a directory of its own; and the tree without boards/.
Trees(Files) ==
    {Tree(FALSE, <<>>)} \cup
    {Tree(TRUE, q) : q \in {r \in SeqsUpTo([dir : Dirs, file : Files], MaxBoards) :
                               \A i, j \in 1..Len(r) : i # j => r[i].dir # r[j].dir}}

NoTree == Tree(FALSE, <<>>)
Unset == [t |-> "unset"]

----------------------------------------------------------------------------
(* main                                                                    *)

\* [line.strip() for line in sys.stdin if line.strip()]
RECURSIVE read_lines(_)
read_lines(lines) ==
    IF lines = <<>> THEN <<>>
    ELSE IF strip(Head(lines)) # <<>>
         THEN <<strip(Head(lines))>> \o read_lines(Tail(lines))
         ELSE read_lines(Tail(lines))

json_dumps(v) == [json |-> v]

KeyValue(key, value) == [form |-> "kv", key |-> key, value |-> value]

\* The lines printed when args.github_output is set.
pipeline_lines(r) ==
    <<KeyValue("include", json_dumps(r.include)),
      KeyValue("boards", json_dumps(r.boards)),
      KeyValue("total", r.total)>>

\* print(json.dumps(result, indent=2)): one object, keys in the dict's order.
human_lines(r) ==
    <<[form |-> "json", keys |-> <<"include", "boards", "total", "reason">>,
       value |-> json_dumps(r)]>>

RunInit ==
    /\ argv \in SeqsUpTo(ArgPaths, MaxArgs)
    /\ stdin \in IF argv = <<>> THEN SeqsUpTo(StdinLines, MaxLines) ELSE {<<>>, <<L_ver>>}
    /\ github_output \in BOOLEAN
    /\ fs \in Trees(RunFiles)
    /\ pc = "start"
    /\ changed_files = <<>>
    /\ stdin_read = FALSE
    /\ result = Unset
    /\ stdout = <<>>
    /\ stderr = <<>>
    /\ exit_code = -1
    /\ version_out = Unset
    /\ affected_out = {}
    /\ affected_prev = {}
    /\ catalog_out = Unset

\* Lines 133-134: positional arguments were given.
ReadArgs ==
    /\ pc = "start"
    /\ argv # <<>>
    /\ changed_files' = argv
    /\ pc' = "check"
    /\ UNCHANGED <<argv, github_output, stdin, fs, stdin_read, result, stdout, stderr,
                   exit_code, version_out, affected_out, affected_prev, catalog_out>>

\* Lines 135-136: none were given, standard input is read to its end.
ReadStdin ==
    /\ pc = "start"
    /\ argv = <<>>
    /\ changed_files' = read_lines(stdin)
    /\ stdin' = <<>>
    /\ stdin_read' = TRUE
    /\ pc' = "check"
    /\ UNCHANGED <<argv, github_output, fs, result, stdout, stderr, exit_code,
                   version_out, affected_out, affected_prev, catalog_out>>

\* Lines 138-140.
NoInput ==
    /\ pc = "check"
    /\ changed_files = <<>>
    /\ stderr' = Append(stderr, "Error: No changed files provided")
    /\ exit_code' = 1
    /\ pc' = "exited"
    /\ UNCHANGED <<argv, github_output, stdin, fs, changed_files, stdin_read, result,
                   stdout, version_out, affected_out, affected_prev, catalog_out>>

\* Line 143, returning a decision.
Determine ==
    /\ pc = "check"
    /\ changed_files # <<>>
    /\ ~IsRaise(determine_build_matrix(changed_files, fs))
    /\ result' = determine_build_matrix(changed_files, fs)
    /\ pc' = "output"
    /\ UNCHANGED <<argv, github_output, stdin, fs, changed_files, stdin_read, stdout,
                   stderr, exit_code, version_out, affected_out, affected_prev,
                   catalog_out>>

\* Line 143, raising: nothing catches the exception, the interpreter prints
\* the traceback and exits with status 1.
DetermineRaises ==
    /\ pc = "check"
    /\ changed_files # <<>>
    /\ IsRaise(determine_build_matrix(changed_files, fs))
    /\ result' = determine_build_matrix(changed_files, fs)
    /\ stderr' = Append(stderr, "Traceback")
    /\ exit_code' = 1
    /\ pc' = "exited"
    /\ UNCHANGED <<argv, github_output, stdin, fs, changed_files, stdin_read, stdout,
                   version_out, affected_out, affected_prev, catalog_out>>

\* Lines 145-151.
PresentPipeline ==
    /\ pc = "output"
    /\ github_output
    /\ stdout' = stdout \o pipeline_lines(result)
    /\ pc' = "return"
    /\ UNCHANGED <<argv, github_output, stdin, fs, changed_files, stdin_read, result,
                   stderr, exit_code, version_out, affected_out, affected_prev,
                   catalog_out>>

\* Lines 152-154.
PresentHuman ==
    /\ pc = "output"
    /\ ~github_output
    /\ stdout' = stdout \o human_lines(result)
    /\ pc' = "return"
    /\ UNCHANGED <<argv, github_output, stdin, fs, changed_files, stdin_read, result,
                   stderr, exit_code, version_out, affected_out, affected_prev,
                   catalog_out>>

\* Lines 157 and 161: sys.exit(main()) with main returning 0.
Return0 ==
    /\ pc = "return"
    /\ exit_code' = 0
    /\ pc' = "exited"
    /\ UNCHANGED <<argv, github_output, stdin, fs, changed_files, stdin_read, result,
                   stdout, stderr, version_out, affected_out, affected_prev,
                   catalog_out>>

Next ==
    \/ ReadArgs
    \/ ReadStdin
    \/ NoInput
    \/ Determine
    \/ DetermineRaises
    \/ PresentPipeline
    \/ PresentHuman
    \/ Return0

Spec == RunInit /\ [][Next]_vars

----------------------------------------------------------------------------
(* The classifier on its own                                               *)

ClassifyInit ==
    /\ changed_files \in SeqsUpTo(AllPaths, MaxFiles)
    /\ pc = "classify"
    /\ argv = <<>>
    /\ stdin = <<>>
    /\ github_output = FALSE
    /\ fs = NoTree
    /\ stdin_read = FALSE
    /\ result = Unset
    /\ stdout = <<>>
    /\ stderr = <<>>
    /\ exit_code = -1
    /\ version_out = Unset
    /\ affected_out = {}
    /\ affected_prev = {}
    /\ catalog_out = Unset

Classify ==
    /\ pc = "classify"
    /\ version_out' = version_changed(changed_files)
    /\ affected_out' = extract_affected_boards(changed_files)
    /\ affected_prev' = extract_affected_boards(changed_files)
    /\ pc' = "classified"
    /\ UNCHANGED <<argv, github_output, stdin, fs, changed_files, stdin_read, result,
                   stdout, stderr, exit_code, catalog_out>>

Swap(q, i) == [q EXCEPT ![i] = q[i + 1], ![i + 1] = q[i]]

\* The same changes handed over in another order, classified again.
Reorder ==
    /\ pc \in {"classified", "reordered"}
    /\ \E i \in 1..(Len(changed_files) - 1) :
          /\ changed_files[i] # changed_files[i + 1]
          /\ changed_files' = Swap(changed_files, i)
    /\ version_out' = version_changed(changed_files')
    /\ affected_prev' = affected_out
    /\ affected_out' = extract_affected_boards(changed_files')
    /\ pc' = "reordered"
    /\ UNCHANGED <<argv, github_output, stdin, fs, stdin_read, result, stdout, stderr,
                   exit_code, catalog_out>>

ClassifyNext == Classify \/ Reorder

SpecClassify == ClassifyInit /\ [][ClassifyNext]_vars

----------------------------------------------------------------------------
(* The catalog reader on its own                                           *)

ScanInit ==
    /\ fs \in Trees(ScanFiles)
    /\ pc = "scan"
    /\ argv = <<>>
    /\ stdin = <<>>
    /\ github_output = FALSE
    /\ changed_files = <<>>
    /\ stdin_read = FALSE
    /\ result = Unset
    /\ stdout = <<>>
    /\ stderr = <<>>
    /\ exit_code = -1
    /\ version_out = Unset
    /\ affected_out = {}
    /\ affected_prev = {}
    /\ catalog_out = Unset

Scan ==
    /\ pc = "scan"
    /\ catalog_out' = find_all_boards(fs)
    /\ pc' = "scanned"
    /\ UNCHANGED <<argv, github_output, stdin, fs, changed_files, stdin_read, result,
                   stdout, stderr, exit_code, version_out, affected_out, affected_prev>>

ScanNext == Scan

SpecScan == ScanInit /\ [][ScanNext]_vars

----------------------------------------------------------------------------
(* What the claims speak of, stated without the functions under test       *)

\* The range of a sequence.
Range(q) == {q[i] : i \in 1..Len(q)}

\* The path segments of a raw path: the parts without the root.
Segments(f) == SelectSeq(parts(f), LAMBDA x : x # SEP)

\* A path of the form versions/X.version: first path segment "versions",
\* filename ending in ".version".
IsVersionPath(f) ==
    /\ parts(f) # <<>>
    /\ parts(f)[1] = "versions"
    /\ Last(parts(f)) \in VersionNames

HasVersionPath(files) == \E f \in Range(files) : IsVersionPath(f)

\* A raw path that reads versions/X.version: as above, and the string
\* itself ends with the filename.
HasVersionForm(files) == \E f \in Range(files) : IsVersionPath(f) /\ Last(f) # SEP

\* The branch a returned decision was built in: the value version_changed
\* had.
GlobalTrigger == version_changed(changed_files).b

\* The identifiers derived from boards/<v>/<m>/... paths.
DerivedIds(files) ==
    {<<parts(f)[2], SEP, parts(f)[3]>> :
        f \in {g \in Range(files) : Len(parts(g)) >= 3 /\ parts(g)[1] = "boards"}}

\* The identifiers of the boards that have a spec.yaml in the tree.
CatalogIds(tree) ==
    IF tree.exists THEN {join(tree.specs[i].dir) : i \in 1..Len(tree.specs)} ELSE {}

CatalogLoads(tree) == ~IsRaise(find_all_boards(tree))

Ids(entries) == {entries[i].board : i \in 1..Len(entries)}

NoDuplicates(entries) ==
    \A i, j \in 1..Len(entries) : i # j => entries[i].board # entries[j].board

Ascending(entries) ==
    \A i, j \in 1..Len(entries) : i < j => str_less(entries[i].board, entries[j].board)

\* main is past its call of determine_build_matrix.
Determined == pc \in {"output", "return", "exited"} /\ changed_files # <<>>

Returned == Determined /\ result.t = "dict"

----------------------------------------------------------------------------
(* Claims                                                                  *)

\* C1: whenever the changed files contain a versions/X.version path, a
\* decision is returned whose include is the full catalog: one entry for
\* every board of the tree and nothing else.  Stated for trees whose
\* catalog loads.
C1_Precedence ==
    (Determined /\ CatalogLoads(fs) /\ HasVersionForm(changed_files)) =>
        /\ result.t = "dict"
        /\ Ids(result.include) = CatalogIds(fs)
        /\ Len(result.include) = Cardinality(CatalogIds(fs))

\* C2: without a versions/X.version path, a decision is returned whose
\* include holds exactly the derived identifiers known to the catalog,
\* without duplicates and ascending by board identifier.  Stated for lists
\* of paths with at least one part and trees whose catalog loads.
C2_SortedIntersection ==
    (Determined /\ CatalogLoads(fs) /\ ~HasVersionForm(changed_files)
       /\ \A f \in Range(changed_files) : parts(f) # <<>>) =>
        /\ result.t = "dict"
        /\ Ids(result.include) = DerivedIds(changed_files) \cap CatalogIds(fs)
        /\ NoDuplicates(result.include)
        /\ Ascending(result.include)

C5_Outcome ==
    (pc = "exited" /\ CatalogLoads(fs)) =>
        /\ IF changed_files = <<>>
           THEN exit_code = 1 /\ stdout = <<>>
           ELSE exit_code = 0 /\ stdout # <<>> /\ result.t = "dict"
        /\ stdin_read => argv = <<>>

\* C6: once the presenter has run, the pipeline form has written the four
\* lines include, boards, total, reason in that order, and the human form
\* one JSON object with those four keys.
C6_Presenter ==
    (pc \in {"return", "exited"} /\ result.t = "dict") =>
        IF github_output
        THEN /\ Len(stdout) = 4
             /\ \A i \in 1..Len(stdout) : stdout[i].form = "kv"
             /\ [i \in 1..Len(stdout) |-> stdout[i].key]
                    = <<"include", "boards", "total", "reason">>
        ELSE /\ Len(stdout) = 1
             /\ stdout[1].form = "json"
             /\ Range(stdout[1].keys) = {"include", "boards", "total", "reason"}

\* C7: the classifier's global trigger is true exactly when some changed
\* path has first segment "versions" and a filename ending in ".version".
C7_GlobalTrigger ==
    (pc \in {"classified", "reordered"}) =>
        version_out = PyBool(HasVersionPath(changed_files))

\* C8: the affected set is exactly the identifiers second/third segment of
\* the changed paths with first segment "boards" and at least three
\* segments, and handing the changes over in another order leaves it as
\* it was.
C8_Affected ==
    (pc \in {"classified", "reordered"}) =>
        /\ affected_out = DerivedIds(changed_files)
        /\ affected_out = affected_prev

C8_Witness ==
    /\ pc = "reordered"
    /\ changed_files = <<P_ax2, P_short, P_ax>>
    /\ affected_out = { <<"a", SEP, "x">> }

\* The arch a spec.yaml must be listed with according to the claim: the
\* board.cpu.arch of a document that is a mapping at every level,
\* otherwise "unknown".
IsMap(v) == v.t = "map"

ClaimedArch(file) ==
    LET d == file.doc
    IN IF /\ file.readable
          /\ file.valid
          /\ IsMap(d)
          /\ "board" \in DOMAIN d.m
          /\ IsMap(d.m["board"])
          /\ "cpu" \in DOMAIN d.m["board"].m
          /\ IsMap(d.m["board"].m["cpu"])
          /\ "arch" \in DOMAIN d.m["board"].m["cpu"].m
       THEN d.m["board"].m["cpu"].m["arch"]
       ELSE PyStr("unknown")

\* C9: find_all_boards raises nothing and lists one entry per spec.yaml,
\* with arch "unknown" wherever the file cannot be read or parsed, the
\* field is absent or a level of the nesting is no mapping; without
\* boards/ the catalog is empty.
C9_ScanRobust ==
    (pc = "scanned") =>
        /\ catalog_out.t = "list"
        /\ IF ~fs.exists THEN catalog_out.items = <<>>
           ELSE /\ Len(catalog_out.items) = Len(fs.specs)
                /\ \A i \in 1..Len(fs.specs) :
                      /\ catalog_out.items[i].board = join(fs.specs[i].dir)
                      /\ catalog_out.items[i].arch = ClaimedArch(fs.specs[i].file)

\* C10: for a non-empty changed-file list of any shape a decision is
\* returned and no exception is raised.  Stated for trees whose catalog
\* loads.
C10_NoException ==
    (Determined /\ CatalogLoads(fs)) => result.t = "dict"

====
